---- MODULE Spec2Model ----
(***************************************************************************)
(* A model of the gRPC fan-out/fan-in proxy handler (proxy/handler.go,     *)
(* kept as src/unnamed/part_000), of its ServerStreamWrapper               *)
(* (src/proxy/serverstream.go) and of the sample Director (src/main.go).   *)
(*                                                                         *)
(* One inbound call is modelled.  The goroutines of the call are the       *)
(* handler itself, the broadcast task of forwardServerToClients, one       *)
(* follower per backend stream and the coordinator of                      *)
(* forwardClientsToServerUnary.  Each action is one step of one goroutine  *)
(* between two points where it can block or be interleaved.                *)
(*                                                                         *)
(* The proxy never inspects a payload, so the k-th frame of backend i is   *)
(* the two-byte sequence <<i, k>> and the k-th frame of the caller is the  *)
(* number k: distinct frames make every loss, duplication or reordering    *)
(* visible.                                                                *)
(***************************************************************************)
EXTENDS Integers, Sequences, FiniteSets, TLC

\* Bounds of the model.
MaxBackends == 2
MaxFrames == 2
MaxDownFrames == 1
NumCallers == 3

Backends == 1..MaxBackends
Callers == 1..NumCallers

VARIABLES
    hpc,              \* handler: position in handler()
    dirOut,           \* handler: what s.director returned (backendConns, err)
    oi,               \* handler: index in "for i := range backendConns"
    openRes,          \* handler: result of grpc.NewClientStream per backend
    s2cErr,           \* handler: value received from s2cErrChan
    c2sErr,           \* handler: value received from c2sErrChan
    status,           \* handler: the error handler() returned
    clientCancelled,  \* clientCancel() has been called
    inboundDone,      \* serverStream.Context() is done
    bpc,              \* broadcast task: position
    bi,               \* broadcast task: index in "for i := range destinations"
    callerSent,       \* frames src.RecvMsg has returned to the broadcast task
    backendSent,      \* frames passed to destinations[i].SendMsg, per backend
    closeSent,        \* number of CloseSend calls per backend
    s2cErrChan,       \* the channel ret of forwardServerToClients
    fpc,              \* follower i: position
    recvLog,          \* payloads src.RecvMsg has returned to follower i
    fend,             \* how follower i ended
    payloadCh,        \* the channel payloadCh
    chClosed,         \* close(payloadCh) was called
    cpc,              \* coordinator: position
    merged,           \* coordinator: the local merged
    downSent,         \* frames handed to the downstream stream's SendMsg
    c2sErrChan,       \* the channel ret of forwardClientsToServerUnary
    lateIO,           \* a send or receive was started after handler() returned
    mu,               \* ServerStreamWrapper: sendMu and recvMu (TRUE = locked)
    wpc,              \* wrapper caller c: position in a wrapper method
    wop,              \* wrapper caller c: the method it is in
    downOps,          \* calls made on the downstream stream: by whom, through what
    s2cPut,           \* every value put on s2cErrChan so far
    c2sPut,           \* every value put on c2sErrChan so far
    pushLog,          \* every payload pushed onto payloadCh so far, in order
    downRes,          \* what the downstream stream's SendMsg returned
    sendFailedAt      \* the caller's frame at which a backend SendMsg first failed

hvars == <<hpc, dirOut, oi, openRes, s2cErr, c2sErr, status, clientCancelled>>
bvars == <<bpc, bi, callerSent, backendSent, closeSent, s2cErrChan>>
fvars == <<fpc, recvLog, fend, payloadCh>>
cvars == <<chClosed, cpc, merged, downSent, c2sErrChan>>
wvars == <<wpc, wop>>
tvars == <<downOps, s2cPut, c2sPut, pushLog, downRes, sendFailedAt>>
vars == <<hvars, inboundDone, bvars, fvars, cvars, lateIO, mu, wvars, tvars>>

----------------------------------------------------------------------------
\* Errors.  An error value is a record; Nil is Go's nil error.

Errorf(code, msg) == [code |-> code, msg |-> msg]
Nil == Errorf("OK", <<>>)
EOF == Errorf("EOF", <<>>)
\* Not an error value: no value yet.
NoStatus == Errorf("none", <<>>)
Canceled == Errorf("Canceled", <<"context canceled">>)
Unavailable == Errorf("Unavailable", <<"transport is closing">>)
MethodMissing == Errorf("Internal", <<"lowLevelServerStream not exists in context">>)

\* grpc.Errorf(codes.Internal, "failed proxying s2c: %v", s2cErr)
S2CFailure(e) == Errorf("Internal", <<"failed proxying s2c">> \o <<e.code>> \o e.msg)

----------------------------------------------------------------------------
\* The sample Director of main.go.  ok is metadata.FromIncomingContext's ok,
\* err1 and err2 are the results of the two grpc.DialContext calls.

Director(ok, err1, err2) ==
    IF ok
    THEN [conns |-> 2, err |-> IF err1 # Nil THEN err1 ELSE err2]
    ELSE [conns |-> 0, err |-> Errorf("Unimplemented", <<"Unknown method">>)]

DialErrors(port) == {Nil, Errorf("Unavailable", <<"dial", port>>)}

\* What a StreamDirector may hand to the handler: the sample Director's
\* results, and any route of 0..MaxBackends connections without error.
DirectorOutcomes ==
    {Director(ok, e1, e2) :
        ok \in BOOLEAN, e1 \in DialErrors(":8051"), e2 \in DialErrors(":8052")}
    \cup {[conns |-> n, err |-> Nil] : n \in 0..MaxBackends}

N == dirOut.conns
Route == 1..N

----------------------------------------------------------------------------
\* Frames.

Payload(i, k) == <<i, k>>
DownFrame(k) == k

RECURSIVE Concat(_)
Concat(ps) == IF ps = <<>> THEN <<>> ELSE Head(ps) \o Concat(Tail(ps))

\* The coordinator's "for b := range payloadCh { merged = append(merged, b...) }"
MergePayloadsDropFirst(ch) == IF ch = <<>> THEN <<>> ELSE Concat(Tail(ch))
MergePayloads(ch) == Concat(ch)

----------------------------------------------------------------------------
\* Contexts.  clientCtx is derived from outgoingCtx, which the Director
\* derives from serverStream.Context(): it is done when either is cancelled.

ClientCtxDone == clientCancelled \/ inboundDone

Launched == hpc \in {"select", "s2cCancel", "s2cReturn", "done"} /\ bpc # "idle"

----------------------------------------------------------------------------
\* ServerStreamWrapper: the mutex each method takes.

SendFamily == {"SetHeader", "SendHeader", "SetTrailer", "SendMsg"}
WrapperOps == SendFamily \cup {"RecvMsg"}

MuOfSingleLock(op) == "sendMu"
MuOf(op) == IF op = "RecvMsg" THEN "recvMu" ELSE "sendMu"

Lock(op) == /\ mu[MuOf(op)] = FALSE
            /\ mu' = [mu EXCEPT ![MuOf(op)] = TRUE]
Unlock(op) == mu' = [mu EXCEPT ![MuOf(op)] = FALSE]

----------------------------------------------------------------------------
Init ==
    /\ hpc = "start"
    /\ dirOut = [conns |-> 0, err |-> Nil]
    /\ oi = 1
    /\ openRes = [i \in Backends |-> NoStatus]
    /\ s2cErr = NoStatus
    /\ c2sErr = NoStatus
    /\ status = NoStatus
    /\ clientCancelled = FALSE
    /\ inboundDone = FALSE
    /\ bpc = "idle"
    /\ bi = 1
    /\ callerSent = <<>>
    /\ backendSent = [i \in Backends |-> <<>>]
    /\ closeSent = [i \in Backends |-> 0]
    /\ s2cErrChan = <<>>
    /\ fpc = [i \in Backends |-> "idle"]
    /\ recvLog = [i \in Backends |-> <<>>]
    /\ fend = [i \in Backends |-> "none"]
    /\ payloadCh = <<>>
    /\ chClosed = FALSE
    /\ cpc = "idle"
    /\ merged = <<>>
    /\ downSent = <<>>
    /\ c2sErrChan = <<>>
    /\ lateIO = FALSE
    /\ mu = [m \in {"sendMu", "recvMu"} |-> FALSE]
    /\ wpc = [c \in Callers |-> "idle"]
    /\ wop = [c \in Callers |-> "SendMsg"]
    /\ downOps = {}
    /\ s2cPut = <<>>
    /\ c2sPut = <<>>
    /\ pushLog = <<>>
    /\ downRes = <<>>
    /\ sendFailedAt = 0

----------------------------------------------------------------------------
\* handler.handler

\* grpc.MethodFromServerStream reports !ok: the handler returns at once.
HandlerMethodMissing ==
    /\ hpc = "start"
    /\ hpc' = "done"
    /\ status' = MethodMissing
    /\ UNCHANGED <<dirOut, oi, openRes, s2cErr, c2sErr, clientCancelled, inboundDone,
                   bvars, fvars, cvars, lateIO, mu, wvars, tvars>>

\* "if err != nil" after s.director
DirectorFailedNever(d) == FALSE
DirectorFailed(d) == d.err # Nil

\* The call of s.director and the test of its error.
HandlerDirector ==
    /\ hpc = "start"
    /\ \E d \in DirectorOutcomes :
        /\ dirOut' = d
        /\ IF DirectorFailed(d)
           THEN hpc' = "done" /\ status' = d.err
           ELSE hpc' = "open" /\ status' = status
    /\ UNCHANGED <<oi, openRes, s2cErr, c2sErr, clientCancelled, inboundDone,
                   bvars, fvars, cvars, lateIO, mu, wvars, tvars>>

\* "if err != nil" after grpc.NewClientStream
\* The state of the scope made by context.WithCancel(outgoingCtx) after a
\* return statement of the handler that does not call clientCancel itself:
\* the handler has no deferred clientCancel.
ScopeAfterReturnDeferred(cancelled) == TRUE
ScopeAfterReturn(cancelled) == cancelled

OpenFailedNever(e) == FALSE
OpenFailed(e) == e # Nil

\* One iteration of the loop that opens the backend streams.
HandlerOpenStream ==
    /\ hpc = "open"
    /\ oi <= N
    /\ \E e \in {Nil, Unavailable} :
        /\ openRes' = [openRes EXCEPT ![oi] = e]
        /\ IF OpenFailed(e)
           THEN /\ hpc' = "done" /\ status' = e /\ oi' = oi
                /\ clientCancelled' = ScopeAfterReturn(clientCancelled)
           ELSE /\ hpc' = hpc /\ status' = status /\ oi' = oi + 1
                /\ clientCancelled' = clientCancelled
    /\ UNCHANGED <<dirOut, s2cErr, c2sErr, inboundDone,
                   bvars, fvars, cvars, lateIO, mu, wvars, tvars>>

\* The stream each pipeline is handed for the downstream side:
\* s.forwardServerToClients(serverStream, clientStreams) and
\* s.forwardClientsToServerUnary(clientStreams, &ServerStreamWrapper{...}).
BroadcastSrc == "serverStream"
FanInDst == "wrapper"

\* A call of method op on the downstream stream by a task, through via.
Access(task, i, op, via) == [task |-> task, i |-> i, op |-> op, via |-> via]

\* forwardServerToClients and forwardClientsToServerUnary start their
\* goroutines and return the two channels; the handler reaches the select.
HandlerLaunch ==
    /\ hpc = "open"
    /\ oi > N
    /\ hpc' = "select"
    /\ bpc' = "recv"
    /\ fpc' = [i \in Backends |-> IF i \in Route THEN "recv" ELSE "idle"]
    /\ cpc' = "wait"
    /\ UNCHANGED <<dirOut, oi, openRes, s2cErr, c2sErr, status, clientCancelled,
                   inboundDone, bi, callerSent, backendSent, closeSent,
                   s2cErrChan, recvLog, fend, payloadCh, chClosed, merged,
                   downSent, c2sErrChan, lateIO, mu, wvars, tvars>>

\* select: case s2cErr := <-s2cErrChan
HandlerSelectS2C ==
    /\ hpc = "select"
    /\ s2cErrChan # <<>>
    /\ s2cErr' = Head(s2cErrChan)
    /\ s2cErrChan' = Tail(s2cErrChan)
    /\ hpc' = "s2cCancel"
    /\ UNCHANGED <<dirOut, oi, openRes, c2sErr, status, clientCancelled,
                   inboundDone, bpc, bi, callerSent, backendSent, closeSent,
                   fvars, cvars, lateIO, mu, wvars, tvars>>

\* clientCancel()
HandlerClientCancelSkipped ==
    /\ hpc = "s2cCancel"
    /\ hpc' = "s2cReturn"
    /\ UNCHANGED <<dirOut, oi, openRes, s2cErr, c2sErr, status, clientCancelled,
                   inboundDone, bvars, fvars, cvars, lateIO, mu, wvars, tvars>>
HandlerClientCancel ==
    /\ hpc = "s2cCancel"
    /\ clientCancelled' = TRUE
    /\ hpc' = "s2cReturn"
    /\ UNCHANGED <<dirOut, oi, openRes, s2cErr, c2sErr, status, inboundDone,
                   bvars, fvars, cvars, lateIO, mu, wvars, tvars>>

\* return grpc.Errorf(codes.Internal, "failed proxying s2c: %v", s2cErr)
HandlerS2CReturn ==
    /\ hpc = "s2cReturn"
    /\ status' = S2CFailure(s2cErr)
    /\ hpc' = "done"
    /\ UNCHANGED <<dirOut, oi, openRes, s2cErr, c2sErr, clientCancelled, inboundDone,
                   bvars, fvars, cvars, lateIO, mu, wvars, tvars>>

\* "if c2sErr != io.EOF { return c2sErr }; return nil"
C2SResultVerbatim(e) == e
C2SResult(e) == IF e # EOF THEN e ELSE Nil

\* select: case c2sErr := <-c2sErrChan
HandlerSelectC2S ==
    /\ hpc = "select"
    /\ c2sErrChan # <<>>
    /\ c2sErr' = Head(c2sErrChan)
    /\ status' = C2SResult(Head(c2sErrChan))
    /\ c2sErrChan' = Tail(c2sErrChan)
    /\ clientCancelled' = ScopeAfterReturn(clientCancelled)
    /\ hpc' = "done"
    /\ UNCHANGED <<dirOut, oi, openRes, s2cErr, inboundDone,
                   bvars, fvars, chClosed, cpc, merged, downSent,
                   lateIO, mu, wvars, tvars>>

Handler ==
    \/ HandlerMethodMissing
    \/ HandlerDirector
    \/ HandlerOpenStream
    \/ HandlerLaunch
    \/ HandlerSelectS2C
    \/ HandlerClientCancel
    \/ HandlerS2CReturn
    \/ HandlerSelectC2S

----------------------------------------------------------------------------
\* The environment of the call.

\* The caller cancels the inbound call (or its connection breaks): the
\* context of serverStream is done.
InboundCancel ==
    /\ hpc = "select"
    /\ bpc # "idle"
    /\ ~inboundDone
    /\ inboundDone' = TRUE
    /\ UNCHANGED <<hvars, bvars, fvars, cvars, lateIO, mu, wvars, tvars>>

\* After handler() has returned the gRPC server ends the stream, which ends
\* its context.
StreamFinish ==
    /\ hpc = "done"
    /\ bpc # "idle"
    /\ ~inboundDone
    /\ inboundDone' = TRUE
    /\ UNCHANGED <<hvars, bvars, fvars, cvars, lateIO, mu, wvars, tvars>>

----------------------------------------------------------------------------
\* handler.forwardServerToClients: the broadcast task.

\* src.RecvMsg(f) returns.  src is the bare serverStream.
\*   - a frame: the loop over the destinations starts (it is empty when the
\*     route is empty, and the next RecvMsg starts at once);
\*   - io.EOF: CloseSend on every destination, return without a value on ret;
\*   - another error: "ret <- err; return".
\* What the broadcast task puts on ret when src.RecvMsg returns io.EOF:
\* nothing, it returns right after the CloseSend loop.
RetOnEOFNil == <<Nil>>
RetOnEOF == <<>>

BroadcastRecv ==
    /\ bpc = "recv"
    /\ \/ /\ ~inboundDone
          /\ Len(callerSent) < MaxDownFrames
          /\ callerSent' = Append(callerSent, DownFrame(Len(callerSent) + 1))
          /\ bi' = 1
          /\ bpc' = IF N = 0 THEN "recv" ELSE "send"
          /\ lateIO' = (lateIO \/ (N = 0 /\ hpc = "done"))
          /\ UNCHANGED <<closeSent, s2cErrChan, s2cPut>>
       \/ /\ ~inboundDone
          /\ closeSent' = [i \in Backends |->
                              IF i \in Route THEN closeSent[i] + 1 ELSE closeSent[i]]
          /\ s2cErrChan' = s2cErrChan \o RetOnEOF
          /\ s2cPut' = s2cPut \o RetOnEOF
          /\ bpc' = "eof"
          /\ UNCHANGED <<callerSent, bi, lateIO>>
       \/ /\ inboundDone
          /\ s2cErrChan' = Append(s2cErrChan, Canceled)
          /\ s2cPut' = Append(s2cPut, Canceled)
          /\ bpc' = "err"
          /\ UNCHANGED <<callerSent, bi, closeSent, lateIO>>
    /\ downOps' = downOps \cup {Access("broadcast", 0, "RecvMsg", BroadcastSrc)}
    /\ UNCHANGED <<hvars, inboundDone, backendSent, fvars, cvars, mu, wvars,
                   c2sPut, pushLog, downRes, sendFailedAt>>

\* destinations[bi].SendMsg(f) returns.  It fails when the context of the
\* backend stream is done, and may fail for the backend's own reasons; on a
\* failure the loop over the destinations is left ("break") and the next
\* RecvMsg starts.
BroadcastSend ==
    /\ bpc = "send"
    /\ bi <= N
    /\ \E ok \in BOOLEAN :
        /\ ok => ~ClientCtxDone
        /\ IF ok
           THEN /\ bi' = bi + 1
                /\ bpc' = IF bi = N THEN "recv" ELSE "send"
           ELSE /\ bi' = bi
                /\ bpc' = "recv"
        /\ sendFailedAt' = IF ~ok /\ sendFailedAt = 0
                           THEN Len(callerSent) ELSE sendFailedAt
    /\ backendSent' = [backendSent EXCEPT
                         ![bi] = Append(@, callerSent[Len(callerSent)])]
    /\ lateIO' = (lateIO \/ hpc = "done")
    /\ UNCHANGED <<hvars, inboundDone, callerSent, closeSent, s2cErrChan,
                   fvars, cvars, mu, wvars,
                   downOps, s2cPut, c2sPut, pushLog, downRes>>

Broadcast == BroadcastRecv \/ BroadcastSend

BroadcastDone == bpc \in {"eof", "err"}

----------------------------------------------------------------------------
\* handler.forwardClientsToServerUnary: follower i, the goroutine started
\* for sources[i].  dst is the ServerStreamWrapper of the call.

\* The frames the followers have received so far, over all backends.
RECURSIVE SumLen(_)
SumLen(S) ==
    IF S = {} THEN 0
    ELSE LET x == CHOOSE y \in S : TRUE IN Len(recvLog[x]) + SumLen(S \ {x})
TotalRecv == SumLen(Backends)

\* src.RecvMsg(f) returns.
\*   - a frame: on the first one (j == 0) the headers are fetched next,
\*     otherwise the payload is pushed;
\*   - io.EOF: dst.SetTrailer(src.Trailer()) is called next;
\*   - another error (always the case once the stream's context is done):
\*     the follower logs it and returns.
\* "if j == 0": what follows the j-th successful RecvMsg.
AfterFrameNoHeader(j) == "push"
AfterFrame(j) == IF j = 0 THEN "header" ELSE "push"

FollowerRecv(i) ==
    /\ fpc[i] = "recv"
    /\ \/ /\ ~ClientCtxDone
          /\ TotalRecv < MaxFrames
          /\ recvLog' = [recvLog EXCEPT
                           ![i] = Append(@, Payload(i, Len(recvLog[i]) + 1))]
          /\ fpc' = [fpc EXCEPT ![i] = AfterFrame(Len(recvLog[i]))]
          /\ fend' = fend
       \/ /\ ~ClientCtxDone
          /\ fpc' = [fpc EXCEPT ![i] = "setTrailer"]
          /\ UNCHANGED <<recvLog, fend>>
       \/ /\ fpc' = [fpc EXCEPT ![i] = "done"]
          /\ fend' = [fend EXCEPT ![i] = "err"]
          /\ recvLog' = recvLog
    /\ UNCHANGED <<hvars, inboundDone, bvars, payloadCh, cvars, lateIO, mu, wvars, tvars>>

\* A whole call of a wrapper method by a goroutine of the handler: Lock, the
\* underlying stream's method, the deferred Unlock.  The underlying method
\* waits for no other goroutine of the call, so the call is one step, taken
\* when the method's mutex is free.
ThroughWrapper(op) == mu[MuOf(op)] = FALSE /\ mu' = mu

\* src.Header() returns: the first message has arrived, so the headers are
\* there, and it can only fail once the stream's context is done (the
\* follower then logs and returns).  Otherwise dst.SetHeader(md) is called
\* through the wrapper; its error is only logged.
FollowerHeader(i) ==
    /\ fpc[i] = "header"
    /\ \/ /\ ThroughWrapper("SetHeader")
          /\ downOps' = downOps \cup {Access("follower", i, "SetHeader", FanInDst)}
          /\ fpc' = [fpc EXCEPT ![i] = "push"]
          /\ fend' = fend
       \/ /\ ClientCtxDone
          /\ fpc' = [fpc EXCEPT ![i] = "done"]
          /\ fend' = [fend EXCEPT ![i] = "hdrerr"]
          /\ UNCHANGED <<mu, downOps>>
    /\ UNCHANGED <<hvars, inboundDone, bvars, recvLog, payloadCh, cvars,
                   lateIO, wvars, s2cPut, c2sPut, pushLog, downRes, sendFailedAt>>

\* "payloadCh <- f.payload": blocks while the channel, of capacity
\* len(sources), is full.  The next RecvMsg starts at once.
PushedInFront(ch, p) == <<p>> \o ch
Pushed(ch, p) == Append(ch, p)

FollowerPush(i) ==
    /\ fpc[i] = "push"
    /\ Len(payloadCh) < N
    /\ payloadCh' = Pushed(payloadCh, recvLog[i][Len(recvLog[i])])
    /\ pushLog' = Append(pushLog, recvLog[i][Len(recvLog[i])])
    /\ fpc' = [fpc EXCEPT ![i] = "recv"]
    /\ lateIO' = (lateIO \/ hpc = "done")
    /\ UNCHANGED <<hvars, inboundDone, bvars, recvLog, fend, cvars, mu, wvars,
                   downOps, s2cPut, c2sPut, downRes, sendFailedAt>>

\* dst.SetTrailer(src.Trailer()) through the wrapper, and the follower
\* returns (wg.Done).
FollowerSetTrailer(i) ==
    /\ fpc[i] = "setTrailer"
    /\ ThroughWrapper("SetTrailer")
    /\ fpc' = [fpc EXCEPT ![i] = "done"]
    /\ fend' = [fend EXCEPT ![i] = "eof"]
    /\ downOps' = downOps \cup {Access("follower", i, "SetTrailer", FanInDst)}
    /\ UNCHANGED <<hvars, inboundDone, bvars, recvLog, payloadCh, cvars,
                   lateIO, wvars, s2cPut, c2sPut, pushLog, downRes, sendFailedAt>>

Follower(i) ==
    \/ FollowerRecv(i)
    \/ FollowerHeader(i)
    \/ FollowerPush(i)
    \/ FollowerSetTrailer(i)

----------------------------------------------------------------------------
\* handler.forwardClientsToServerUnary: the coordinator goroutine.

\* What the downstream stream's SendMsg may return.
SendResults == {Nil, EOF, Unavailable}

\* wg.Wait() returns once every follower has returned.
WgWaitReturnsAtOnce == TRUE
WgWaitReturns == \A i \in Route : fpc[i] = "done"

\* wg.Wait() has returned; close(payloadCh); the channel is drained into
\* merged.
CoordinatorMerge ==
    /\ cpc = "wait"
    /\ WgWaitReturns
    /\ chClosed' = TRUE
    /\ merged' = MergePayloads(payloadCh)
    /\ payloadCh' = <<>>
    /\ cpc' = "send"
    /\ UNCHANGED <<hvars, inboundDone, bvars, fpc, recvLog, fend, downSent,
                   c2sErrChan, lateIO, mu, wvars, tvars>>

\* dst.SendMsg(&frame{payload: merged}) through the wrapper returns r, and
\* "ret <- r".  The send cannot succeed once the downstream stream is done.
CoordinatorSend ==
    /\ cpc = "send"
    /\ ThroughWrapper("SendMsg")
    /\ \E r \in SendResults :
        /\ r = Nil => ~inboundDone
        /\ downRes' = Append(downRes, r)
        /\ c2sErrChan' = Append(c2sErrChan, r)
        /\ c2sPut' = Append(c2sPut, r)
    /\ downSent' = Append(downSent, merged)
    /\ downOps' = downOps \cup {Access("coordinator", 0, "SendMsg", FanInDst)}
    /\ cpc' = "done"
    /\ lateIO' = (lateIO \/ hpc = "done")
    /\ UNCHANGED <<hvars, inboundDone, bvars, fvars, chClosed, merged, wvars,
                   s2cPut, pushLog, sendFailedAt>>

Coordinator == CoordinatorMerge \/ CoordinatorSend

----------------------------------------------------------------------------
\* ServerStreamWrapper used by any callers: caller c calls method op, takes
\* the method's mutex, is inside the underlying stream's method, and leaves.

WrapperCall(c) ==
    /\ wpc[c] = "idle"
    /\ \E op \in WrapperOps : wop' = [wop EXCEPT ![c] = op]
    /\ wpc' = [wpc EXCEPT ![c] = "lock"]
    /\ UNCHANGED <<hvars, inboundDone, bvars, fvars, cvars, lateIO, mu, tvars>>

WrapperLock(c) ==
    /\ wpc[c] = "lock"
    /\ Lock(wop[c])
    /\ wpc' = [wpc EXCEPT ![c] = "inside"]
    /\ UNCHANGED <<hvars, inboundDone, bvars, fvars, cvars, lateIO, wop, tvars>>

WrapperUnlock(c) ==
    /\ wpc[c] = "inside"
    /\ Unlock(wop[c])
    /\ wpc' = [wpc EXCEPT ![c] = "idle"]
    /\ UNCHANGED <<hvars, inboundDone, bvars, fvars, cvars, lateIO, wop, tvars>>

----------------------------------------------------------------------------
\* One proxied call.
Next ==
    \/ Handler
    \/ InboundCancel
    \/ StreamFinish
    \/ Broadcast
    \/ \E i \in Backends : Follower(i)
    \/ Coordinator

Spec == Init /\ [][Next]_vars

\* Every goroutine that can take a step eventually takes one, and the server
\* ends the stream once the handler has returned.  The caller is not obliged
\* to cancel.
FairSpec ==
    /\ Spec
    /\ WF_vars(Handler)
    /\ WF_vars(StreamFinish)
    /\ WF_vars(Broadcast)
    /\ \A i \in Backends : WF_vars(Follower(i))
    /\ WF_vars(Coordinator)

\* One ServerStreamWrapper under concurrent callers.
WrapperNext ==
    \E c \in Callers : WrapperCall(c) \/ WrapperLock(c) \/ WrapperUnlock(c)

WrapperSpec == Init /\ [][WrapperNext]_vars

----------------------------------------------------------------------------
\* Properties.

FollowersDone == \A i \in Route : fpc[i] = "done"
FanInDone == cpc = "done"
AllTasksDone == BroadcastDone /\ FollowersDone /\ FanInDone

\* The orders in which the backends of the route can be arranged.
Orders == {p \in [Route -> Route] : \A a, b \in Route : p[a] = p[b] => a = b}

\* C1: for a call routed to a non-empty backend set, when the broadcast task
\* has ended on the caller's end-of-input, each backend stream's SendMsg has
\* been called with exactly the frames the caller sent, in the caller's order.
C1_Claim ==
    (bpc = "eof" /\ N >= 1) => \A i \in Route : backendSent[i] = callerSent

\* C2: with exactly one backend and nothing cancelled or failed, the fan-in
\* eventually hands downstream one merged frame, the concatenation of the
\* backend's frames in their order, and puts its completion value on its
\* channel.
C2_Disturbed == ClientCtxDone \/ fend[1] \in {"err", "hdrerr"}
C2_Claim ==
    (Launched /\ N = 1)
        ~> (C2_Disturbed \/ (FanInDone /\ downSent = <<Concat(recvLog[1])>>))

\* C3: with two or more backends that each returned exactly one payload and
\* then end-of-input, the merged frame sent downstream is the concatenation
\* of the payloads in some order of the backends, each exactly once.
C3_OneEach == \A i \in Route : fend[i] = "eof" /\ Len(recvLog[i]) = 1
C3_Theorem ==
    (N >= 2 /\ FanInDone /\ C3_OneEach)
        => \E p \in Orders :
              downSent = <<Concat([k \in Route |-> Payload(p[k], 1)])>>
C3_Witness ==
    /\ N = 2
    /\ FanInDone
    /\ C3_OneEach
    /\ downSent = <<Payload(2, 1) \o Payload(1, 1)>>

\* C4: when the Director returns an error the handler returns that error,
\* no backend stream is opened, no pipeline is started and nothing is
\* received from or sent to the downstream stream.
C4_Theorem ==
    (hpc # "start" /\ dirOut.err # Nil)
        => /\ hpc = "done"
           /\ status = dirOut.err
           /\ \A i \in Backends : openRes[i] = NoStatus
           /\ bpc = "idle" /\ cpc = "idle"
           /\ \A i \in Backends : fpc[i] = "idle"
           /\ callerSent = <<>> /\ downSent = <<>>
C4_Witness ==
    hpc = "done" /\ dirOut.err.code = "Unimplemented" /\ status = dirOut.err

\* C5: when opening one backend stream fails the handler returns that error
\* and no frame is ever passed to any backend stream, the ones opened before
\* the failing one included.
C5_Theorem ==
    \A i \in Backends :
        (openRes[i] \notin {NoStatus, Nil})
            => /\ hpc = "done"
               /\ status = openRes[i]
               /\ bpc = "idle"
               /\ \A j \in Backends : backendSent[j] = <<>>
C5_Witness ==
    hpc = "done" /\ N = 2 /\ openRes[1] = Nil /\ openRes[2] = Unavailable

\* C6: when the inbound call is cancelled while the backend streams are open
\* and no backend has ended its stream, the broadcast task, every follower
\* and the coordinator eventually terminate.
C6_Claim ==
    (inboundDone /\ hpc = "select" /\ N >= 1 /\ \A i \in Route : fpc[i] # "done")
        ~> AllTasksDone

\* C7: when the select takes the broadcast pipeline's value, clientCancel has
\* been called before the handler returns, and the handler returns an
\* Internal error made from that value.
C7_Theorem ==
    /\ hpc = "s2cReturn" => clientCancelled
    /\ (hpc = "done" /\ s2cErr # NoStatus)
          => /\ clientCancelled
             /\ s2cErr # Nil
             /\ status.code = "Internal"
             /\ status = S2CFailure(s2cErr)
C7_Witness ==
    hpc = "done" /\ s2cErr = Canceled /\ status.code = "Internal"

\* C8: when the select takes the fan-in pipeline's value, the call succeeds
\* if the value is nil or io.EOF, and otherwise the handler returns exactly
\* that value.
C8_Theorem ==
    (hpc = "done" /\ c2sErr # NoStatus)
        => status = (IF c2sErr \in {Nil, EOF} THEN Nil ELSE c2sErr)
C8_Witness ==
    hpc = "done" /\ c2sErr = EOF /\ status = Nil

\* C9: the handler returns one status, and once it has returned no task of
\* the call starts a send or a receive on the downstream stream or on a
\* backend stream.
C9_Claim ==
    /\ hpc = "done" => status # NoStatus
    /\ ~lateIO

\* C10: on one wrapper at most one caller is inside a send-family method of
\* the underlying stream and at most one is inside its RecvMsg, and a caller
\* waiting for one of the two mutexes is never kept waiting by a caller of
\* the other family.
InsideSend == {c \in Callers : wpc[c] = "inside" /\ wop[c] \in SendFamily}
InsideRecv == {c \in Callers : wpc[c] = "inside" /\ wop[c] = "RecvMsg"}
C10_Theorem ==
    /\ Cardinality(InsideSend) <= 1
    /\ Cardinality(InsideRecv) <= 1
    /\ \A c \in Callers :
          (wpc[c] = "lock" /\ wop[c] \in SendFamily /\ InsideSend = {})
              => ENABLED WrapperLock(c)
    /\ \A c \in Callers :
          (wpc[c] = "lock" /\ wop[c] = "RecvMsg" /\ InsideRecv = {})
              => ENABLED WrapperLock(c)
C10_Witness ==
    \E a, b, c \in Callers :
        /\ wpc[a] = "inside" /\ wop[a] = "SendMsg"
        /\ wpc[b] = "inside" /\ wop[b] = "RecvMsg"
        /\ wpc[c] = "lock" /\ wop[c] = "SetHeader"

\* C11: when the Director returns no error and an empty list of backend
\* connections, nothing is sent downstream and the call ends with an error
\* status.
C11_Claim ==
    (dirOut.err = Nil /\ N = 0)
        => /\ downSent = <<>>
           /\ hpc = "done" => status.code # "OK"

\* C12: in a call whose pipelines were launched, each pipeline puts exactly
\* one value on its completion channel: never more than one, and one once
\* the pipeline has terminated, the broadcast's clean end on the caller's
\* end-of-input included.
C12_Claim ==
    /\ Len(s2cPut) <= 1
    /\ Len(c2sPut) <= 1
    /\ (Launched /\ BroadcastDone) => Len(s2cPut) = 1
    /\ (Launched /\ FanInDone) => Len(c2sPut) = 1

\* C13: a follower's push onto the delivery channel never blocks forever: a
\* follower that has a payload to push always gets back to its receive, so
\* every follower eventually exits and the coordinator's wait returns.
C13_Claim ==
    /\ \A i \in Backends : (fpc[i] = "push") ~> (fpc[i] # "push")
    /\ (Launched /\ N >= 1) ~> (FollowersDone /\ cpc # "wait")

\* C14: once a backend SendMsg has failed in the broadcast task, the task
\* does not end cleanly: it reports the failure on its completion channel,
\* the handler's clientCancel is called when the handler returns, and no
\* frame the caller sent after the failed one is passed to any backend.
C14_Claim ==
    sendFailedAt # 0
        => /\ bpc # "eof"
           /\ BroadcastDone => s2cPut # <<>>
           /\ hpc = "done" => clientCancelled
           /\ \A i \in Route : Len(backendSent[i]) <= sendFailedAt

\* C15: every call a forwarding task makes on the downstream stream - the
\* broadcast task's RecvMsg, the followers' SetHeader and SetTrailer, the
\* coordinator's SendMsg - is made through the call's ServerStreamWrapper.
C15_Claim == \A a \in downOps : a.via = "wrapper"

\* C16: a follower whose RecvMsg failed with an error other than io.EOF has
\* exited without putting a value on the fan-in's completion channel; once
\* every follower has exited the coordinator can go on, the merged frame it
\* sends holds every payload queued, those of the failed follower included,
\* the only value on the completion channel is the result of that send, and
\* a handler that takes it returns that result.
C16_Failed == {i \in Route : fend[i] = "err"}
C17_HeaderSet(i) == Access("follower", i, "SetHeader", FanInDst) \in downOps
C17_Theorem ==
    /\ \A i \in Route : fpc[i] = "push" => C17_HeaderSet(i)
    /\ \A n \in 1..Len(pushLog) : C17_HeaderSet(pushLog[n][1])
    /\ \A i \in Route : fpc[i] = "header" => Len(recvLog[i]) = 1
    /\ \A a \in downOps : a.op = "SendMsg" => FollowersDone
    /\ downSent # <<>> => FollowersDone
    /\ Len(downSent) <= 1
C17_Witness ==
    /\ N = 2
    /\ downSent = <<Payload(2, 1) \o Payload(1, 1)>>
    /\ \A i \in Route :
          /\ C17_HeaderSet(i)
          /\ Access("follower", i, "SetTrailer", FanInDst) \in downOps

C19_Theorem ==
    /\ Len(downSent) <= 1
    /\ Len(downRes) = Len(downSent)
    /\ c2sPut = downRes
    /\ downSent # <<>> => (FollowersDone /\ downSent = <<Concat(pushLog)>>)
    /\ cpc = "send" => (payloadCh = <<>> /\ chClosed /\ merged = Concat(pushLog))
    /\ (cpc = "send" /\ ~inboundDone) => ENABLED CoordinatorSend
    /\ cpc = "done" => Len(downSent) = 1
C19_Witness ==
    /\ N = 2
    /\ \A i \in Route : fend[i] = "eof"
    /\ pushLog = <<>>
    /\ downSent = <<<<>>>>
    /\ c2sPut = <<Nil>>

\* C20: clientCancel is called on one return path only, the one taken when
\* the broadcast pipeline's value wins the select; a handler that returned
\* because a backend stream failed to open, or with the fan-in's result
\* (success or error), has left the scope uncancelled.
C20_OpenFailed == \E i \in Route : openRes[i] \notin {NoStatus, Nil}
C20_Theorem ==
    /\ clientCancelled => (s2cErr # NoStatus /\ hpc \in {"s2cReturn", "done"})
    /\ (hpc = "done" /\ s2cErr # NoStatus) => clientCancelled
    /\ (hpc = "done" /\ C20_OpenFailed) => ~clientCancelled
    /\ (hpc = "done" /\ c2sErr # NoStatus) => ~clientCancelled
C20_Witness ==
    /\ hpc = "done"
    /\ N = 2
    /\ \A i \in Route : openRes[i] = Nil
    /\ c2sErr = Unavailable
    /\ status = Unavailable
    /\ ~clientCancelled

====
